---- MODULE Spec2Model ----
(***************************************************************************)
(* Model of prisma-extension-soft-delete: the per-model configuration      *)
(* store, the rewrite rules of helpers/createParams.ts and the root and    *)
(* nested dispatch of createSoftDeleteExtension.ts.                        *)
(*                                                                         *)
(* JavaScript values are modelled as strings ("true", "false", "null",     *)
(* "date", ...), objects as functions from keys to values (Object.keys is  *)
(* DOMAIN, spread is Spread), and an args value as a record                *)
(* [kind, obj] so that undefined / true / false / object are told apart.   *)
(***************************************************************************)
EXTENDS Integers, FiniteSets, Sequences, TLC

VARIABLES modelConfig, configs, call, nested

vars == <<modelConfig, configs, call, nested>>

(***************************************************************************)
(* Values and objects                                                      *)
(***************************************************************************)

\* JavaScript truthiness of a modelled value (the operand of ||, ! and ?:).
Truthy(v) == v \notin {"false", "null", "zero", "undefined"}

\* {} and { ...a, ...b }
EmptyObj == [k \in {} |-> "undefined"]

Spread(a, b) == [k \in (DOMAIN a) \cup (DOMAIN b) |-> IF k \in DOMAIN b THEN b[k] ELSE a[k]]

Without(a, key) == [k \in (DOMAIN a) \ {key} |-> a[k]]

\* args values: undefined, the nested shorthands true / false, or an object
Undefined == [kind |-> "undefined", obj |-> EmptyObj]

BoolArg(b) == [kind |-> IF b THEN "true" ELSE "false", obj |-> EmptyObj]

Obj(o) == [kind |-> "object", obj |-> o]

\* { ...x } of any args value: a non-object spreads to nothing
ObjOf(x) == IF x.kind = "object" THEN x.obj ELSE EmptyObj

\* x?.[key] is present (and an object or a truthy value)
Has(x, key) == x.kind = "object" /\ key \in DOMAIN x.obj

\* the value { not: v } of a where clause
NotValue(v) == CASE v = "false" -> "not_false"
                 [] v = "null" -> "not_null"
                 [] v = "date" -> "not_date"
                 [] OTHER -> "not_other"

(***************************************************************************)
(* Schema metadata (Prisma.dmmf), the models and their configuration       *)
(***************************************************************************)

Models == {"User", "Post", "Comment", "Profile", "Tag"}

\* relation fields of the data model: name, target type, cardinality and
\* whether the field holds the foreign key (relationToFields is non-empty)
RelationFields ==
  { [model |-> "User",    name |-> "posts",    type |-> "Post",    isList |-> TRUE,  relationToFields |-> FALSE],
    [model |-> "User",    name |-> "comments", type |-> "Comment", isList |-> TRUE,  relationToFields |-> FALSE],
    [model |-> "User",    name |-> "profile",  type |-> "Profile", isList |-> FALSE, relationToFields |-> FALSE],
    [model |-> "Post",    name |-> "author",   type |-> "User",    isList |-> FALSE, relationToFields |-> TRUE],
    [model |-> "Post",    name |-> "comments", type |-> "Comment", isList |-> TRUE,  relationToFields |-> FALSE],
    [model |-> "Post",    name |-> "tags",     type |-> "Tag",     isList |-> TRUE,  relationToFields |-> FALSE],
    [model |-> "Comment", name |-> "author",   type |-> "User",    isList |-> FALSE, relationToFields |-> TRUE],
    [model |-> "Comment", name |-> "post",     type |-> "Post",    isList |-> FALSE, relationToFields |-> TRUE],
    [model |-> "Profile", name |-> "user",     type |-> "User",    isList |-> FALSE, relationToFields |-> TRUE] }

\* id and @unique fields of a model
uniqueFieldsByModel(m) == IF m = "User" THEN {"id", "email"} ELSE {"id"}

\* names of the compound unique indexes of a model (field names joined by _)
uniqueIndexFieldsByModel(m) == IF m \in {"User", "Post"} THEN {"a_b"} ELSE {}

\* createValue functions a configuration may carry
\*   Boolean:   deleted => deleted
\*   timestamp: deleted => deleted ? deletedAt : null
\*   constant:  () => deletedAt
createValue(fn, deleted) ==
  CASE fn = "Boolean" -> IF deleted THEN "true" ELSE "false"
    [] fn = "timestamp" -> IF deleted THEN "date" ELSE "null"
    [] OTHER -> "date"

NoNestModels == [def |-> TRUE, map |-> [k \in {} |-> TRUE]]

UndefNestModels == [def |-> FALSE, map |-> [k \in {} |-> TRUE]]

\* the built-in defaultConfig
BuiltinDefaultConfig ==
  [field |-> "deleted", createValue |-> "Boolean",
   allowToOneUpdates |-> "false", allowCompoundUniqueIndexWhere |-> "false",
   queryOption |-> "except", nestModels |-> NoNestModels, forceDelete |-> "false"]

\* a configuration object giving only field and createValue
MinimalConfig(f, fn) ==
  [field |-> f, createValue |-> fn,
   allowToOneUpdates |-> "undefined", allowCompoundUniqueIndexWhere |-> "undefined",
   queryOption |-> "undefined", nestModels |-> UndefNestModels, forceDelete |-> "undefined"]

\* a complete configuration object that allows both guarded operations
PermissiveConfig(f, fn) ==
  [field |-> f, createValue |-> fn,
   allowToOneUpdates |-> "true", allowCompoundUniqueIndexWhere |-> "true",
   queryOption |-> "except", nestModels |-> NoNestModels, forceDelete |-> "false"]

\* the extension set-ups explored: the defaultConfig object and the object
\* given for Post; User and Comment are configured as true, Profile as
\* false, and Tag is absent from the models map
Setups ==
  { [default |-> BuiltinDefaultConfig, own |-> PermissiveConfig("deletedAt", "timestamp")],
    [default |-> MinimalConfig("deletedAt", "timestamp"), own |-> MinimalConfig("deleted", "Boolean")],
    [default |-> PermissiveConfig("deletedAt", "constant"), own |-> BuiltinDefaultConfig] }

ModelSettings == [User |-> "true", Comment |-> "true", Post |-> "object", Profile |-> "false"]

\* the resolution giving every model of the schema a config
ResolveConfig_everyModel(m) ==
  IF m \in DOMAIN ModelSettings /\ ModelSettings[m] = "object" THEN "own" ELSE "default"

\* modelConfig[modelName] = typeof config === "boolean" && config ? defaultConfig : config
\* The result is a reference: every model configured as true holds the one
\* defaultConfig object.
ResolveConfig(m) ==
  CASE m \notin DOMAIN ModelSettings -> "none"
    [] ModelSettings[m] = "true" -> "default"
    [] ModelSettings[m] = "object" -> "own"
    [] OTHER -> "none"

OptedIn(m) == modelConfig[m] # "none"

ConfigOf(m) == configs[modelConfig[m]]

(***************************************************************************)
(* helpers/createParams.ts: the rewrite rules.  A rule takes the model's   *)
(* config and the params [model, operation, args, scope] and returns       *)
(* [err, operation, args]: err names the error thrown ("none" when the     *)
(* rule returns), operation and args are those of the returned params.     *)
(***************************************************************************)

NoScope ==
  [has |-> FALSE, isList |-> FALSE, name |-> "none", parent |-> "none", modifier |-> "none",
   parentOperation |-> "none"]

Returned(operation, args) == [err |-> "none", operation |-> operation, args |-> args]

Thrown(error, params) == [err |-> error, operation |-> params.operation, args |-> params.args]

\* Object.keys(obj).length === 0 && obj.constructor === Object, for a
\* nestModels value that is defined
isEmptyObject(nestModels) == DOMAIN nestModels.map = {}

\* model.toLowerCase().includes(key.toLowerCase()) over the relation names
\* and model names of the schema
IncludesLower(relation, key) ==
  <<relation, key>> \in { <<"post", "Post">>, <<"posts", "Post">>, <<"comments", "Comment">>,
                          <<"user", "User">>, <<"profile", "Profile">>, <<"tags", "Tag">> }

\* params.args?.include || {}
IncludeOf(args) == IF Has(args, "include") THEN args.obj.include ELSE EmptyObj

\* params.args?.include[model]?.where || {}
IncludeWhere(entry) == IF Has(entry, "where") THEN entry.obj.where ELSE EmptyObj

\* The include built by getInclude when nestModels is defined.  Only the
\* relations matching a nestModels key are copied, each as { where }.  No
\* relation name of the schema matches two keys, so the order in which the
\* keys are visited does not matter here.
getInclude(config, args) ==
  IF isEmptyObject(config.nestModels)
  THEN IncludeOf(args)
  ELSE LET inc == IncludeOf(args)
           keys == DOMAIN config.nestModels.map
           matched == {r \in DOMAIN inc : \E k \in keys : IncludesLower(r, k)}
           keyOf(r) == CHOOSE k \in keys : IncludesLower(r, k)
       IN [r \in matched |->
             IF config.nestModels.map[keyOf(r)]
             THEN Obj("where" :> IncludeWhere(inc[r]))
             ELSE Obj("where" :> Spread(IncludeWhere(inc[r]),
                                        config.field :> createValue(config.createValue, FALSE)))]

\* args?.where || {}
WhereOf(args) == IF Has(args, "where") THEN args.obj.where ELSE EmptyObj

\* where[config.field] || config.createValue(false)
CallerOrDefault(config, where) ==
  IF config.field \in DOMAIN where /\ Truthy(where[config.field])
  THEN where[config.field]
  ELSE createValue(config.createValue, FALSE)

\* getWhere with the all case falling through to the default case
getWhere_allFallsThrough(config, args) ==
  LET where == WhereOf(args)
  IN CASE config.queryOption = "only" ->
            Spread(where, config.field :> NotValue(createValue(config.createValue, FALSE)))
       [] OTHER -> Spread(where, config.field :> CallerOrDefault(config, where))

getWhere(config, args) ==
  LET where == WhereOf(args)
  IN CASE config.queryOption = "all" -> where
       [] config.queryOption = "only" ->
            Spread(where, config.field :> NotValue(createValue(config.createValue, FALSE)))
       [] OTHER -> Spread(where, config.field :> CallerOrDefault(config, where))

\* getNewWhere letting the caller's value for the field win in the default
\* case, as getWhere does
getNewWhere_callerWins(config, where) ==
  CASE config.queryOption = "all" -> ObjOf(where)
    [] config.queryOption = "only" ->
         Spread(ObjOf(where), config.field :> NotValue(createValue(config.createValue, FALSE)))
    [] OTHER -> Spread(ObjOf(where), config.field :> CallerOrDefault(config, ObjOf(where)))

\* where is any value: the args, or the where object inside them
getNewWhere(config, where) ==
  CASE config.queryOption = "all" -> ObjOf(where)
    [] config.queryOption = "only" ->
         Spread(ObjOf(where), config.field :> NotValue(createValue(config.createValue, FALSE)))
    [] OTHER -> Spread(ObjOf(where), config.field :> createValue(config.createValue, FALSE))

\* params.args?.where || params.args
WhereOrArgs(args) == IF Has(args, "where") THEN Obj(args.obj.where) ELSE args

\* { [config.field]: config.createValue(true) }
DeletedData(config) == config.field :> createValue(config.createValue, TRUE)

\* createDeleteParams passing the caller's where on as it is
createDeleteParams_plainWhere(config, params) ==
  IF params.args.kind = "false" \/ (~params.scope.has /\ ~Has(params.args, "where"))
  THEN Returned(params.operation, params.args)
  ELSE IF params.args.kind = "true"
  THEN Returned(IF Truthy(config.forceDelete) THEN "delete" ELSE "update",
                Obj(("__passUpdateThrough" :> "true") @@ DeletedData(config)))
  ELSE Returned(IF Truthy(config.forceDelete) THEN "delete" ELSE "update",
                Obj(("where" :> ObjOf(WhereOrArgs(params.args)))
                    @@ ("data" :> DeletedData(config))))

createDeleteParams(config, params) ==
  IF params.args.kind = "false" \/ (~params.scope.has /\ ~Has(params.args, "where"))
  THEN Returned(params.operation, params.args)
  ELSE IF params.args.kind = "true"
  THEN Returned(IF Truthy(config.forceDelete) THEN "delete" ELSE "update",
                Obj(("__passUpdateThrough" :> "true") @@ DeletedData(config)))
  ELSE Returned(IF Truthy(config.forceDelete) THEN "delete" ELSE "update",
                Obj(("where" :> getNewWhere(config, WhereOrArgs(params.args)))
                    @@ ("data" :> DeletedData(config))))

createDeleteManyParams(config, params) ==
  LET where == getNewWhere(config, WhereOrArgs(params.args))
  IN IF Truthy(config.forceDelete)
     THEN Returned("deleteMany", Obj("where" :> where))
     ELSE Returned("updateMany", Obj(("where" :> where) @@ ("data" :> DeletedData(config))))

\* params.args?.__passUpdateThrough
PassUpdateThrough(args) ==
  Has(args, "__passUpdateThrough") /\ Truthy(args.obj["__passUpdateThrough"])

\* createUpdateParams without the allowToOneUpdates test
createUpdateParams_ignoresAllow(config, params) ==
  IF params.scope.has /\ ~params.scope.isList /\ ~PassUpdateThrough(params.args)
  THEN Thrown("RelationSafetyError", params)
  ELSE IF PassUpdateThrough(params.args)
  THEN Returned(params.operation, Obj(Without(params.args.obj, "__passUpdateThrough")))
  ELSE Returned(params.operation, params.args)

createUpdateParams(config, params) ==
  IF params.scope.has /\ ~params.scope.isList /\ ~Truthy(config.allowToOneUpdates)
     /\ ~PassUpdateThrough(params.args)
  THEN Thrown("RelationSafetyError", params)
  ELSE IF PassUpdateThrough(params.args)
  THEN Returned(params.operation, Obj(Without(params.args.obj, "__passUpdateThrough")))
  ELSE Returned(params.operation, params.args)

createUpdateManyParams(config, params) ==
  IF params.args.kind \in {"undefined", "false"}
  THEN Returned(params.operation, params.args)
  ELSE Returned(params.operation,
                Obj(Spread(ObjOf(params.args),
                           "where" :> Spread(WhereOf(params.args),
                                             config.field :> CallerOrDefault(config, WhereOf(params.args))))))

createUpsertParams(config, params) ==
  IF params.scope.has /\ ~params.scope.isList
  THEN Thrown("RelationSafetyError", params)
  ELSE Returned(params.operation, params.args)

\* the key of the where that names a compound unique index, if any
HasUniqueIndexField(params) ==
  \E key \in DOMAIN WhereOf(params.args) : key \in uniqueIndexFieldsByModel(params.model)

\* validateFindUniqueParams throws
FindUniqueGuardThrows(params, config) ==
  HasUniqueIndexField(params) /\ ~Truthy(config.allowCompoundUniqueIndexWhere)

\* shouldPassFindUniqueParamsThrough without the compound-unique-index case
shouldPassFindUniqueParamsThrough_noIndexCase(params, config) ==
  \/ ~Has(params.args, "where")
  \/ ~\E key \in DOMAIN WhereOf(params.args) :
        /\ key \in uniqueFieldsByModel(params.model) \cup uniqueIndexFieldsByModel(params.model)
        /\ WhereOf(params.args)[key] # "undefined"

shouldPassFindUniqueParamsThrough(params, config) ==
  \/ ~Has(params.args, "where")
  \/ ~\E key \in DOMAIN WhereOf(params.args) :
        /\ key \in uniqueFieldsByModel(params.model) \cup uniqueIndexFieldsByModel(params.model)
        /\ WhereOf(params.args)[key] # "undefined"
  \/ (HasUniqueIndexField(params) /\ Truthy(config.allowCompoundUniqueIndexWhere))

\* { ...params.args, where, ...(isEmptyObject(include) ? {} : { include }) }
\* isEmptyObject(config.nestModels) inside getInclude throws a TypeError when
\* nestModels is undefined.
FindArgs(config, params, operation) ==
  IF ~config.nestModels.def
  THEN Thrown("TypeError", params)
  ELSE LET where == getWhere(config, params.args)
           include == getInclude(config, params.args)
       IN Returned(operation,
                   Obj(Spread(Spread(ObjOf(params.args), "where" :> where),
                              IF DOMAIN include = {} THEN EmptyObj ELSE "include" :> include)))

createFindUniqueParams(config, params) ==
  IF shouldPassFindUniqueParamsThrough(params, config)
  THEN Returned(params.operation, params.args)
  ELSE IF FindUniqueGuardThrows(params, config)
  THEN Thrown("UniqueIndexGuardError", params)
  ELSE FindArgs(config, params, "findFirst")

createFindUniqueOrThrowParams(config, params) ==
  IF shouldPassFindUniqueParamsThrough(params, config)
  THEN Returned(params.operation, params.args)
  ELSE IF FindUniqueGuardThrows(params, config)
  THEN Thrown("UniqueIndexGuardError", params)
  ELSE FindArgs(config, params, "findFirstOrThrow")

createFindFirstParams(config, params) == FindArgs(config, params, "findFirst")

createFindFirstOrThrowParams(config, params) == FindArgs(config, params, "findFirstOrThrow")

createFindManyParams(config, params) == FindArgs(config, params, "findMany")

createGroupByParams(config, params) ==
  Returned("groupBy", Obj(Spread(ObjOf(params.args), "where" :> getWhere(config, params.args))))

\* createCountParams returning the caller's args
createCountParams_noWhere(config, params) == Returned(params.operation, params.args)

createCountParams(config, params) ==
  Returned(params.operation, Obj(Spread(ObjOf(params.args), "where" :> getWhere(config, params.args))))

createAggregateParams(config, params) ==
  Returned(params.operation, Obj(Spread(ObjOf(params.args), "where" :> getWhere(config, params.args))))

\* a relation filter of a where clause: { OR: [{ field: { not: ... } }, args] }
\* under the every modifier unless args names the field with a truthy value
\* params.args[config.field] throws a TypeError on undefined args; args that
\* are not an object go into the OR as they are.
createWhereParams(config, params) ==
  IF ~params.scope.has
  THEN Returned(params.operation, params.args)
  ELSE IF params.scope.modifier = "every" /\ params.args.kind = "undefined"
  THEN Thrown("TypeError", params)
  ELSE IF params.scope.modifier = "every"
          /\ ~(Has(params.args, config.field) /\ Truthy(params.args.obj[config.field]))
  THEN Returned(params.operation,
                Obj("OR" :> << config.field :> NotValue(createValue(config.createValue, FALSE)),
                               IF params.args.kind = "object" THEN params.args.obj
                               ELSE params.args >>))
  ELSE Returned(params.operation, Obj(getNewWhere(config, params.args)))

\* utils/nestedReads: the selection with the deletion field added
addDeletedToSelect(params, config) ==
  Obj(Spread(ObjOf(params.args),
             "select" :> Spread(params.args.obj.select, config.field :> "true")))

\* a select node: handed on under an include; through a to-one relation the
\* deletion field is added to a selection that does not name it; otherwise
\* the visibility where is added
createSelectParams(config, params) ==
  IF params.scope.has /\ params.scope.parentOperation = "include"
  THEN Returned(params.operation, params.args)
  ELSE IF params.scope.has /\ ~params.scope.isList
  THEN IF Has(params.args, "select")
          /\ ~(config.field \in DOMAIN params.args.obj.select
               /\ Truthy(params.args.obj.select[config.field]))
       THEN Returned(params.operation, addDeletedToSelect(params, config))
       ELSE Returned(params.operation, params.args)
  ELSE Returned(params.operation,
                Obj(Spread(ObjOf(params.args), "where" :> getWhere(config, params.args))))

\* the operations createParamsByModel[model] has a rule for
RuledOperations ==
  {"delete", "deleteMany", "update", "updateMany", "upsert", "findFirst", "findFirstOrThrow",
   "findUnique", "findUniqueOrThrow", "findMany", "count", "aggregate", "groupBy", "where",
   "select"}

\* createParamsByModel[params.model][params.operation](params)
createParams(config, params) ==
  CASE params.operation = "delete" -> createDeleteParams(config, params)
    [] params.operation = "deleteMany" -> createDeleteManyParams(config, params)
    [] params.operation = "update" -> createUpdateParams(config, params)
    [] params.operation = "updateMany" -> createUpdateManyParams(config, params)
    [] params.operation = "upsert" -> createUpsertParams(config, params)
    [] params.operation = "findFirst" -> createFindFirstParams(config, params)
    [] params.operation = "findFirstOrThrow" -> createFindFirstOrThrowParams(config, params)
    [] params.operation = "findUnique" -> createFindUniqueParams(config, params)
    [] params.operation = "findUniqueOrThrow" -> createFindUniqueOrThrowParams(config, params)
    [] params.operation = "findMany" -> createFindManyParams(config, params)
    [] params.operation = "count" -> createCountParams(config, params)
    [] params.operation = "aggregate" -> createAggregateParams(config, params)
    [] params.operation = "where" -> createWhereParams(config, params)
    [] params.operation = "select" -> createSelectParams(config, params)
    [] OTHER -> createGroupByParams(config, params)

(***************************************************************************)
(* createSoftDeleteExtension.ts: state                                     *)
(*                                                                         *)
(* modelConfig  model name -> the config object it refers to, or "none"    *)
(* configs      the config objects (mutated in place by the extension)     *)
(* call         the root calls in flight, one per slot                     *)
(* nested       the nested operation last dispatched for the call in       *)
(*              flight                                                     *)
(*                                                                         *)
(* A root call is issued (the model method returns a promise), then        *)
(* $rootOperation runs its rule and hands the operation to the underlying  *)
(* client (running), then the client returns (done) or rejects (failed).   *)
(* mode, disturbed and after are history fields: the visibility mode the   *)
(* shared config held when the caller issued the call, whether anybody     *)
(* else wrote that config while the call was waiting for its rule, and     *)
(* the model on which the caller's previous call was a read issued after   *)
(* withTrashed() that returned, no mutator having been called since        *)
(* ("none" otherwise).                                                     *)
(***************************************************************************)

Slots == {"a", "b"}

NoExec == [operation |-> "none", args |-> Undefined]

IdleCall ==
  [st |-> "idle", model |-> "none", operation |-> "none", args |-> Undefined, force |-> FALSE,
   mode |-> "none", disturbed |-> FALSE, err |-> "none", exec |-> NoExec,
   answer |-> "none", result |-> "none", after |-> "none"]

\* from is the node as the caller wrote it: the node itself, or the node
\* whose rewrite changed the operation kind and brought the walker here
NoNested ==
  [active |-> FALSE, model |-> "none", operation |-> "none", args |-> Undefined,
   scope |-> NoScope, err |-> "none", out |-> NoExec, from |-> NoExec]

rootOperations ==
  {"delete", "deleteMany", "update", "updateMany", "upsert", "findFirst", "findFirstOrThrow",
   "findUnique", "findUniqueOrThrow", "findMany", "count", "aggregate", "groupBy", "create"}

ReadOperations ==
  {"findFirst", "findFirstOrThrow", "findUnique", "findUniqueOrThrow", "findMany", "count",
   "aggregate", "groupBy"}

\* the branch of the switch on config.queryOption: anything but "all" and
\* "only" takes the default (except) branch
NormalMode(queryOption) == IF queryOption \in {"all", "only"} THEN queryOption ELSE "except"

\* createParamsByModel[model]?.[operation] is defined
HasRule(m, operation) == OptedIn(m) /\ operation \in RuledOperations

InFlight(c) == c.st \in {"issued", "running"}

Quiescent == \A s \in Slots : call[s].st = "idle"

\* the calls of other slots that wait for their rule on config object cid
\* have seen that object written
Disturb(calls, s, cid) ==
  [t \in Slots |->
     IF t # s /\ calls[t].st = "issued" /\ calls[t].model \in Models
        /\ modelConfig[calls[t].model] = cid
     THEN [calls[t] EXCEPT !.disturbed = TRUE]
     ELSE calls[t]]

\* a mutator has been called: no call is the next one after a read any more
Mutated(calls) == [t \in Slots |-> [calls[t] EXCEPT !.after = "none"]]

Init ==
  /\ modelConfig = [m \in Models |-> ResolveConfig(m)]
  /\ configs \in Setups
  /\ call = [s \in Slots |-> IdleCall]
  /\ nested = NoNested

(***************************************************************************)
(* The visibility mutators ($allModels).  On a model without a config the  *)
(* assignment to modelConfig[modelName]! throws and nothing changes.       *)
(***************************************************************************)

withTrashed(m) ==
  /\ OptedIn(m)
  /\ configs' = [configs EXCEPT ![modelConfig[m]].queryOption = "all"]
  /\ call' = Mutated(Disturb(call, "none", modelConfig[m]))
  /\ UNCHANGED <<modelConfig, nested>>

onlyTrashed(m) ==
  /\ OptedIn(m)
  /\ configs' = [configs EXCEPT ![modelConfig[m]].queryOption = "only"]
  /\ call' = Mutated(Disturb(call, "none", modelConfig[m]))
  /\ UNCHANGED <<modelConfig, nested>>

\* items[0].relationToFields?.length of the fields of modelName whose type
\* is model
isIncludeModel(modelName, model) ==
  \E f \in RelationFields : f.model = modelName /\ f.type = model /\ f.relationToFields

\* nestModels after the forEach over Object.keys(nestedModels)
NestModelsAfter(m, nestedModels) ==
  LET old == ConfigOf(m).nestModels
      keys == {k \in DOMAIN nestedModels : isIncludeModel(m, k)}
  IN IF ~old.def THEN old
     ELSE [def |-> TRUE,
           map |-> [k \in (DOMAIN old.map) \cup keys |->
                      IF k \in keys THEN nestedModels[k] ELSE old.map[k]]]

\* The config object is written only for a key that passes the three
\* tests: the model has a config, its nestModels is defined, and the key is
\* a relation of the model holding the foreign key.
withTrashedRelated(m, nestedModels) ==
  /\ OptedIn(m)
  /\ configs' = [configs EXCEPT ![modelConfig[m]].nestModels = NestModelsAfter(m, nestedModels)]
  /\ call' = Mutated(IF ConfigOf(m).nestModels.def
                        /\ \E k \in DOMAIN nestedModels : isIncludeModel(m, k)
                     THEN Disturb(call, "none", modelConfig[m])
                     ELSE call)
  /\ UNCHANGED <<modelConfig, nested>>

(***************************************************************************)
(* Root calls                                                              *)
(***************************************************************************)

Issued(m, operation, args, force, config) ==
  [st |-> "issued", model |-> m, operation |-> operation, args |-> args, force |-> force,
   mode |-> IF OptedIn(m) THEN NormalMode(config.queryOption) ELSE "none",
   disturbed |-> FALSE, err |-> "none", exec |-> NoExec, answer |-> "none", result |-> "none",
   after |-> "none"]

\* client.model.operation(args) on the extended client
RootCall(s, m, operation, args) ==
  /\ call[s].st = "idle"
  /\ call' = [call EXCEPT ![s] =
                [Issued(m, operation, args, FALSE,
                        IF OptedIn(m) THEN ConfigOf(m) ELSE BuiltinDefaultConfig)
                 EXCEPT !.after = IF call[s].after = m /\ operation \in ReadOperations
                                  THEN m ELSE "none"]]
  /\ UNCHANGED <<modelConfig, configs, nested>>

\* forceDelete(args): sets the flag, then context.deleteMany({ where })
forceDelete(s, m, args) ==
  /\ call[s].st = "idle"
  /\ OptedIn(m)
  /\ configs' = [configs EXCEPT ![modelConfig[m]].forceDelete = "true"]
  /\ call' = [Mutated(Disturb(call, s, modelConfig[m])) EXCEPT
                ![s] = Issued(m, "deleteMany", Obj("where" :> WhereOf(args)), TRUE, ConfigOf(m))]
  /\ UNCHANGED <<modelConfig, nested>>

RootParams(c) == [model |-> c.model, operation |-> c.operation, args |-> c.args, scope |-> NoScope]

\* $rootOperation up to the await: the rule, then the call of the client
RootOperation(s) ==
  /\ call[s].st = "issued"
  /\ LET c == call[s]
         r == createParams(ConfigOf(c.model), RootParams(c))
     IN IF ~HasRule(c.model, c.operation)
        THEN call' = [call EXCEPT ![s].st = "running",
                                  ![s].exec = [operation |-> c.operation, args |-> c.args]]
        ELSE IF r.err # "none"
        THEN call' = [call EXCEPT ![s].st = "failed", ![s].err = r.err]
        ELSE call' = [call EXCEPT ![s].st = "running",
                                  ![s].exec = [operation |-> r.operation, args |-> r.args]]
  /\ nested' = NoNested
  /\ UNCHANGED <<modelConfig, configs>>

\* the reset without the queryOption line
ResetConfig_keepsMode(config) ==
  [config EXCEPT !.forceDelete = "false", !.nestModels = NoNestModels]

\* modelConfig[configModelName].forceDelete = false; .nestModels = {}; .queryOption = "except"
ResetConfig(config) ==
  [config EXCEPT !.forceDelete = "false", !.nestModels = NoNestModels, !.queryOption = "except"]

\* what the underlying client may answer
ClientResults == {"rows", "null"}

\* The client resolves with answer.  With a rule, $rootOperation resumes
\* after the await, resets the config and returns the answer:
\* modifyResultByModel holds entries for include and select only, never for
\* a root operation.  Without a rule the promise of initialParams.query is
\* what $rootOperation returned.
ClientReturn(s, answer) ==
  /\ call[s].st = "running"
  /\ IF HasRule(call[s].model, call[s].operation)
     THEN /\ configs' = [configs EXCEPT ![modelConfig[call[s].model]] = ResetConfig(@)]
          /\ call' = [Disturb(call, s, modelConfig[call[s].model]) EXCEPT
                        ![s].st = "done", ![s].answer = answer, ![s].result = answer]
     ELSE /\ configs' = configs
          /\ call' = [call EXCEPT ![s].st = "done", ![s].answer = answer, ![s].result = answer]
  /\ UNCHANGED <<modelConfig, nested>>

\* the client rejects: the await throws and $rootOperation is left
ClientFail(s) ==
  /\ call[s].st = "running"
  /\ call' = [call EXCEPT ![s].st = "failed", ![s].err = "ClientError"]
  /\ UNCHANGED <<modelConfig, configs, nested>>

\* a read of an opted-in model, issued after withTrashed(), has returned
TrashedReadDone(c) ==
  /\ c.st = "done" /\ c.mode = "all"
  /\ HasRule(c.model, c.operation) /\ c.operation \in ReadOperations

\* the caller has the result or the error; the slot is free again
Retire(s) ==
  /\ call[s].st \in {"done", "failed"}
  /\ call' = [call EXCEPT ![s] =
                [IdleCall EXCEPT !.after = IF TrashedReadDone(call[s]) THEN call[s].model
                                           ELSE "none"]]
  /\ nested' = NoNested
  /\ UNCHANGED <<modelConfig, configs>>

(***************************************************************************)
(* Nested operations: the walker calls $allNestedOperations for a node of  *)
(* the root call's payload, reached through relation field rel.            *)
(***************************************************************************)

ScopeOf(rel, modifier, parentOperation) ==
  [has |-> TRUE, isList |-> rel.isList, name |-> rel.name, parent |-> rel.model, modifier |-> modifier,
   parentOperation |-> parentOperation]

\* $allNestedOperations for one node: the rule, then params.query
AllNestedOperations(s, model, scope, operation, args, from) ==
  LET params == [model |-> model, operation |-> operation, args |-> args, scope |-> scope]
      r == createParams(ConfigOf(model), params)
      node == [active |-> TRUE, model |-> model, operation |-> operation, args |-> args,
               scope |-> scope, err |-> "none", out |-> NoExec, from |-> from]
  IN /\ IF ~HasRule(model, operation)
        THEN /\ nested' = [node EXCEPT !.out = [operation |-> operation, args |-> args]]
             /\ call' = call
        ELSE IF r.err # "none"
        THEN /\ nested' = [node EXCEPT !.err = r.err]
             /\ call' = [call EXCEPT ![s].st = "failed", ![s].err = r.err]
        ELSE /\ nested' = [node EXCEPT !.out = [operation |-> r.operation, args |-> r.args]]
             /\ call' = call
     /\ UNCHANGED <<modelConfig, configs>>

NestedOperation(s, rel, modifier, parentOperation, operation, args) ==
  /\ call[s].st = "issued"
  /\ call[s].model = rel.model
  /\ AllNestedOperations(s, rel.type, ScopeOf(rel, modifier, parentOperation), operation, args,
                         [operation |-> operation, args |-> args])

\* The walker, given another operation kind by params.query, calls
\* $allNestedOperations again for the node under its new kind, with the args
\* the rule returned.
NestedRedispatch(s) ==
  /\ call[s].st = "issued"
  /\ nested.active /\ nested.err = "none"
  /\ nested.out.operation # nested.operation
  /\ AllNestedOperations(s, nested.model, nested.scope, nested.out.operation, nested.out.args,
                         nested.from)

(***************************************************************************)
(* The calls explored                                                      *)
(***************************************************************************)

\* the deletion field a caller of model m would name
FieldOf(m) == IF OptedIn(m) THEN ConfigOf(m).field ELSE "deleted"

\* where clauses that name the deletion field: falsy and truthy values
FieldValues == {"false", "null", "date"}

ReadArgs(m) ==
  { Undefined,
    Obj("where" :> ("status" :> "x")),
    Obj("where" :> ("id" :> "v1")),
    Obj("where" :> ("a_b" :> "v1")),
    Obj(("where" :> ("id" :> "v1"))
        @@ ("include" :> (("post" :> Obj(("select" :> "s") @@ ("where" :> ("status" :> "x"))))
                          @@ ("author" :> BoolArg(TRUE))))) }
  \cup { Obj("where" :> (("id" :> "v1") @@ (FieldOf(m) :> v))) : v \in FieldValues }

\* a unique lookup whose unique key holds undefined
UndefinedKeyArgs == { Obj("where" :> ("id" :> "undefined")) }

DeleteArgs(m) ==
  { Undefined,
    Obj("where" :> ("id" :> "v1")),
    Obj("where" :> (("id" :> "v1") @@ (FieldOf(m) :> "date"))) }

DeleteManyArgs(m) ==
  { Undefined,
    Obj(EmptyObj),
    Obj("where" :> ("status" :> "x")),
    Obj("where" :> (("status" :> "x") @@ (FieldOf(m) :> "date"))) }

UpdateArgs == { Obj(("where" :> ("id" :> "v1")) @@ ("data" :> ("status" :> "y"))) }

UpdateManyArgs(m) ==
  { Undefined,
    Obj("data" :> ("status" :> "y")),
    Obj(("where" :> ("status" :> "x")) @@ ("data" :> ("status" :> "y"))) }
  \cup { Obj(("where" :> (("status" :> "x") @@ (FieldOf(m) :> v))) @@ ("data" :> ("status" :> "y")))
         : v \in {"null", "date"} }

CreateArgs == { Obj("data" :> ("status" :> "y")) }

RootArgs(m, operation) ==
  CASE ~OptedIn(m) -> { Obj("where" :> ("id" :> "v1")) }
    [] operation \in {"findUnique", "findUniqueOrThrow"} -> ReadArgs(m) \cup UndefinedKeyArgs
    [] operation \in ReadOperations -> ReadArgs(m)
    [] operation = "delete" -> DeleteArgs(m)
    [] operation = "deleteMany" -> DeleteManyArgs(m)
    [] operation = "updateMany" -> UpdateManyArgs(m)
    [] operation = "create" -> CreateArgs
    [] OTHER -> UpdateArgs

ForceDeleteArgs(m) ==
  { Undefined,
    Obj("where" :> ("status" :> "x")),
    Obj("where" :> (("status" :> "x") @@ (FieldOf(m) :> "date"))) }

NestedModelsArgs == { "Post" :> TRUE, "Post" :> FALSE }

\* root operations whose payload carries nested writes; of the reads,
\* findMany is explored with relation filters in its where and findFirst
\* with selections of relations
NestedParents == {"update", "upsert"}

NestedOperations(rootOperation) ==
  IF rootOperation \in NestedParents
  THEN {"delete", "update", "deleteMany", "updateMany", "upsert", "create"}
  ELSE CASE rootOperation = "findMany" -> {"where"}
         [] rootOperation = "findFirst" -> {"select"}
         [] OTHER -> {}

Modifiers(operation) == IF operation = "where" THEN {"every", "some"} ELSE {"none"}

\* the operation of the node's parent: the root operation, or for a select
\* an include node of the root's args
ParentOperations(rootOperation, operation) ==
  IF operation = "select" THEN {rootOperation, "include"} ELSE {rootOperation}

\* args of a nested node of model m; the update carrying __passUpdateThrough
\* is the node the delete rule makes of delete: true
NestedArgs(m, operation) ==
  CASE operation = "delete" ->
         { BoolArg(TRUE), BoolArg(FALSE), Obj("id" :> "v1"),
           Obj(("id" :> "v1") @@ (FieldOf(m) :> "date")) }
    [] operation = "update" ->
         { Obj(("where" :> ("id" :> "v1")) @@ ("data" :> ("status" :> "y"))),
           Obj("status" :> "y"),
           Obj(("__passUpdateThrough" :> "true") @@ (FieldOf(m) :> "date")) }
    [] operation = "deleteMany" ->
         { Obj("status" :> "x"), Obj(EmptyObj), Obj(("status" :> "x") @@ (FieldOf(m) :> "date")) }
    [] operation = "updateMany" ->
         { Obj(("where" :> ("status" :> "x")) @@ ("data" :> ("status" :> "y"))) }
    [] operation = "where" ->
         { Obj("status" :> "x"), Obj(("status" :> "x") @@ (FieldOf(m) :> "date")) }
    [] operation = "select" ->
         { Obj("select" :> ("title" :> "true")),
           Obj("select" :> (("title" :> "true") @@ (FieldOf(m) :> "true"))),
           Obj(("select" :> ("title" :> "true")) @@ ("where" :> ("status" :> "x"))) }
    [] OTHER -> { Obj("data" :> ("status" :> "y")) }

(***************************************************************************)
(* Spec: root calls issued one at a time (slot a only); the mutators are   *)
(* called between calls.                                                   *)
(***************************************************************************)

CallWithTrashed == Quiescent /\ \E m \in Models : withTrashed(m)

CallOnlyTrashed == Quiescent /\ \E m \in Models : onlyTrashed(m)

CallWithTrashedRelated ==
  Quiescent /\ \E m \in Models : \E nm \in NestedModelsArgs : withTrashedRelated(m, nm)

CallForceDelete == Quiescent /\ \E m \in Models : \E args \in ForceDeleteArgs(m) : forceDelete("a", m, args)

CallRoot ==
  Quiescent /\ \E m \in Models : \E operation \in rootOperations :
                 \E args \in RootArgs(m, operation) : RootCall("a", m, operation, args)

Nested ==
  \E rel \in RelationFields : \E operation \in NestedOperations(call["a"].operation) :
    \E modifier \in Modifiers(operation) : \E args \in NestedArgs(rel.type, operation) :
      \E parentOperation \in ParentOperations(call["a"].operation, operation) :
        NestedOperation("a", rel, modifier, parentOperation, operation, args)

Redispatch == NestedRedispatch("a")

Run == RootOperation("a")

Return == \E answer \in ClientResults : ClientReturn("a", answer)

Fail == ClientFail("a")

Finish == Retire("a")

Next ==
  \/ CallWithTrashed
  \/ CallOnlyTrashed
  \/ CallWithTrashedRelated
  \/ CallForceDelete
  \/ CallRoot
  \/ Nested
  \/ Redispatch
  \/ Run
  \/ Return
  \/ Fail
  \/ Finish

Spec == Init /\ [][Next]_vars

(***************************************************************************)
(* SpecConc: two root calls may overlap, and the visibility mutators may   *)
(* be called while calls are in flight.  Reads only.                       *)
(***************************************************************************)

ConcModels == {"User"}

ConcOperations == {"findMany", "count"}

ConcArgs == { Undefined, Obj("where" :> ("status" :> "x")) }

ConcWithTrashed == \E m \in ConcModels : withTrashed(m)

ConcOnlyTrashed == \E m \in ConcModels : onlyTrashed(m)

ConcRoot ==
  \E s \in Slots : \E m \in ConcModels : \E operation \in ConcOperations : \E args \in ConcArgs :
    RootCall(s, m, operation, args)

ConcRun == \E s \in Slots : RootOperation(s)

ConcReturn == \E s \in Slots : \E answer \in ClientResults : ClientReturn(s, answer)

ConcFail == \E s \in Slots : ClientFail(s)

ConcFinish == \E s \in Slots : Retire(s)

NextConc ==
  \/ ConcWithTrashed
  \/ ConcOnlyTrashed
  \/ ConcRoot
  \/ ConcRun
  \/ ConcReturn
  \/ ConcFail
  \/ ConcFinish

SpecConc == Init /\ [][NextConc]_vars

(***************************************************************************)
(* Properties                                                              *)
(*                                                                         *)
(* While a call is running, under Spec, its model's config is the one its  *)
(* rule has read: the mutators wait for the call and the reset comes with  *)
(* the client's answer.                                                    *)
(***************************************************************************)

Running(c) == c.st = "running"

\* the filter the caller gave: args.where, or the args themselves
CallerFilter(args) == IF Has(args, "where") THEN args.obj.where ELSE ObjOf(args)

\* the config a model resolves to: defaultConfig when configured as true, its
\* own object when one is given, none when the model is configured as false
\* or is absent from the models map
ResolvedConfig(m) == IF ResolveConfig(m) = "none" THEN "none" ELSE configs[ResolveConfig(m)]

NotDeleted(config) == createValue(config.createValue, FALSE)

MarkDeleted(config) == config.field :> createValue(config.createValue, TRUE)

ExceptMode(config) == config.queryOption \notin {"all", "only"}

\* forceDelete, nestModels and queryOption are at (or, left undefined,
\* behave as) false, empty and except
AtDefaults(config) ==
  /\ ~Truthy(config.forceDelete)
  /\ config.nestModels.def /\ DOMAIN config.nestModels.map = {}
  /\ ExceptMode(config)

\* a root delete with a where, or a root deleteMany, not issued by forceDelete()
DirectDelete(c) ==
  /\ c.model \in Models /\ OptedIn(c.model) /\ ~c.force
  /\ \/ c.operation = "deleteMany"
     \/ c.operation = "delete" /\ Has(c.args, "where")

\* C1: with root calls issued one at a time, a root delete (with a where) or
\* deleteMany that the caller issues directly on an opted-in model reaches
\* the client as update / updateMany setting field to createValue(true),
\* never as delete / deleteMany, whatever calls came before.
C1_DirectDeleteIsSoft ==
  \A s \in Slots :
    (Running(call[s]) /\ DirectDelete(call[s]))
      => /\ call[s].exec.operation \in {"update", "updateMany"}
         /\ Has(call[s].exec.args, "data")
         /\ call[s].exec.args.obj.data = MarkDeleted(ResolvedConfig(call[s].model))

\* the where forceDelete(args) passes on: args?.where || {}
ForceWhere(c) == c.args.obj.where

\* C2 as claimed: forceDelete(args) hands the client a deleteMany whose where
\* is exactly the caller's where, in every visibility mode.
C2_ForceDeleteKeepsCallerWhere ==
  \A s \in Slots :
    (Running(call[s]) /\ call[s].force)
      => /\ call[s].exec.operation = "deleteMany"
         /\ call[s].exec.args = Obj("where" :> ForceWhere(call[s]))

\* C2 as amended: with calls issued one at a time, forceDelete(args) reaches
\* the client (its rule never rejects it) as one deleteMany without data,
\* whose where is the caller's where in mode all, the caller's where with
\* field = createValue(false) in mode except, and the caller's where with
\* field = {not: createValue(false)} in mode only.
C2_ForceDeleteWhereFollowsMode ==
  \A s \in Slots :
    LET c == call[s]
        config == ResolvedConfig(c.model)
    IN c.force =>
         /\ c.st = "failed" => c.err = "ClientError"
         /\ c.st # "issued" =>
              /\ c.exec.operation = "deleteMany"
              /\ DOMAIN c.exec.args.obj = {"where"}
              /\ c.exec.args.obj.where =
                   CASE c.mode = "all" -> ForceWhere(c)
                     [] c.mode = "only" ->
                          [k \in DOMAIN ForceWhere(c) \cup {config.field} |->
                             IF k = config.field THEN NotValue(NotDeleted(config)) ELSE ForceWhere(c)[k]]
                     [] OTHER ->
                          [k \in DOMAIN ForceWhere(c) \cup {config.field} |->
                             IF k = config.field THEN NotDeleted(config) ELSE ForceWhere(c)[k]]

\* a forceDelete in the default mode, whose caller named the deletion field,
\* is at the client
C2_Witness ==
  \E s \in Slots :
    /\ Running(call[s]) /\ call[s].force /\ call[s].mode = "except"
    /\ ResolvedConfig(call[s].model).field \in DOMAIN ForceWhere(call[s])
    /\ call[s].exec.operation = "deleteMany"

\* C3: once a root operation on an opted-in model has completed (returned,
\* rejected by its rule, or failed in the client), the model's forceDelete,
\* nestModels and queryOption are back at false, empty and except.
C3_ResetAfterEveryRootCall ==
  \A s \in Slots :
    (call[s].st \in {"done", "failed"} /\ OptedIn(call[s].model))
      => AtDefaults(ConfigOf(call[s].model))

\* reads whose rule always rewrites the where
FilteringReads == {"findFirst", "findFirstOrThrow", "findMany", "count", "aggregate", "groupBy"}

\* a root read of an opted-in model
RuledRead(c) == c.model \in Models /\ HasRule(c.model, c.operation) /\ c.operation \in ReadOperations

\* c is the next read on the model of a read issued after withTrashed() that
\* has returned, no mutator called in between, and is at the client with a
\* where in which the caller did not name the field
NextReadAtClient(c) ==
  /\ RuledRead(c) /\ c.after = c.model /\ Running(c)
  /\ ConfigOf(c.model).field \notin DOMAIN WhereOf(c.args)

\* a findUnique / findUniqueOrThrow the rule hands on as it is: no where, no
\* unique or compound-unique-index key with a defined value in the where, or a
\* compound-unique-index key with allowCompoundUniqueIndexWhere set
UniqueLookupHandedOn(c) ==
  /\ c.operation \in {"findUnique", "findUniqueOrThrow"}
  /\ \/ ~Has(c.args, "where")
     \/ ~\E key \in DOMAIN WhereOf(c.args) :
           /\ key \in uniqueFieldsByModel(c.model) \cup uniqueIndexFieldsByModel(c.model)
           /\ WhereOf(c.args)[key] # "undefined"
     \/ /\ DOMAIN WhereOf(c.args) \cap uniqueIndexFieldsByModel(c.model) # {}
        /\ Truthy(ConfigOf(c.model).allowCompoundUniqueIndexWhere)

\* C4 as claimed: a root read issued after withTrashed() (mode all) reaches
\* the client with the caller's where and nothing added; nested operations
\* leave the mode as the call found it; once the read has returned the
\* model is back at its defaults, and the next read on the model, of any of
\* the eight kinds, issued without a mutator, is executed with
\* field = createValue(false).
C4_NextReadAlwaysFiltered ==
  \A s \in Slots :
    LET c == call[s]
        config == ConfigOf(c.model)
    IN /\ RuledRead(c) =>
            /\ (Running(c) /\ c.mode = "all") => WhereOf(c.exec.args) = WhereOf(c.args)
            /\ c.st = "issued" => NormalMode(config.queryOption) = c.mode
            /\ c.st = "done" => /\ config.queryOption = "except"
                                /\ config.forceDelete = "false"
                                /\ config.nestModels = NoNestModels
            /\ c.after = c.model => c.mode = "except"
       /\ NextReadAtClient(c)
            => /\ config.field \in DOMAIN WhereOf(c.exec.args)
               /\ WhereOf(c.exec.args)[config.field] = NotDeleted(config)

\* C4 as amended: the same, but the next read is executed with
\* field = createValue(false) unless it is a findUnique / findUniqueOrThrow
\* that its rule hands on, which is executed as the caller wrote it.
C4_WithTrashedReadThenReset ==
  \A s \in Slots :
    LET c == call[s]
        config == ConfigOf(c.model)
    IN /\ RuledRead(c) =>
            /\ (Running(c) /\ c.mode = "all") => WhereOf(c.exec.args) = WhereOf(c.args)
            /\ c.st = "issued" => NormalMode(config.queryOption) = c.mode
            /\ c.st = "done" => /\ config.queryOption = "except"
                                /\ config.forceDelete = "false"
                                /\ config.nestModels = NoNestModels
            /\ c.after = c.model => c.mode = "except"
       /\ NextReadAtClient(c)
            => IF UniqueLookupHandedOn(c)
               THEN c.exec = [operation |-> c.operation, args |-> c.args]
               ELSE /\ config.field \in DOMAIN WhereOf(c.exec.args)
                    /\ WhereOf(c.exec.args)[config.field] = NotDeleted(config)

\* the next read after a read issued after withTrashed() has returned is at
\* the client, rewritten to findFirst and filtered
C4_Witness ==
  \E s \in Slots :
    /\ NextReadAtClient(call[s]) /\ call[s].operation = "findUnique"
    /\ call[s].exec.operation = "findFirst"
    /\ WhereOf(call[s].exec.args) =
         Spread(WhereOf(call[s].args),
                ConfigOf(call[s].model).field :> NotDeleted(ConfigOf(call[s].model)))

\* the next read is a lookup by compound unique index, handed on unfiltered
C4_WitnessHandedOn ==
  \E s \in Slots :
    /\ NextReadAtClient(call[s]) /\ UniqueLookupHandedOn(call[s])
    /\ Has(call[s].args, "where")
    /\ ConfigOf(call[s].model).field \notin DOMAIN WhereOf(call[s].exec.args)

\* the where handed to the client carries field = createValue(false)
Filtered(c) ==
  LET config == ConfigOf(c.model)
  IN /\ config.field \in DOMAIN WhereOf(c.exec.args)
     /\ WhereOf(c.exec.args)[config.field] = NotDeleted(config)

\* the operation of c was handed to the client
Executed(c) == c.st \in {"running", "done"} \/ (c.st = "failed" /\ c.err = "ClientError")

\* c was rewritten under a visibility mode other than the one in force when
\* it was issued: a default-mode read without the filter, or a read issued
\* after withTrashed() with it
MisRewritten(c) ==
  /\ Executed(c) /\ c.model \in Models /\ HasRule(c.model, c.operation)
  /\ c.operation \in FilteringReads
  /\ ConfigOf(c.model).field \notin DOMAIN WhereOf(c.args)
  /\ \/ c.mode = "except" /\ ~Filtered(c)
     \/ c.mode = "all" /\ Filtered(c)

\* C5: when root calls on one model overlap, a call can be rewritten under
\* a visibility mode it did not request, and only because another call's
\* mutator or reset wrote the shared config between its issue and its rule.
C5_MisRewriteOnlyByInterference ==
  \A s \in Slots : MisRewritten(call[s]) => call[s].disturbed

\* a default-mode read is at the client without the filter while the call
\* issued after withTrashed() on the same model is in flight
C5_Witness ==
  \E s \in Slots : \E t \in Slots \ {s} :
    /\ call[s].mode = "except" /\ MisRewritten(call[s]) /\ Running(call[s])
    /\ call[t].mode = "all" /\ InFlight(call[t]) /\ call[t].model = call[s].model

\* the other outcome of the race: the read issued after withTrashed() is at
\* the client with the filter, the default-mode call's reset having come first
C5_WitnessFilteredWithTrashed ==
  \E s \in Slots : \E t \in Slots \ {s} :
    /\ call[s].mode = "all" /\ MisRewritten(call[s]) /\ Running(call[s])
    /\ call[t].mode = "except" /\ call[t].st = "done" /\ call[t].model = call[s].model

\* a root read of an opted-in model that is at the client
RunningRead(c) ==
  /\ Running(c) /\ c.model \in Models /\ HasRule(c.model, c.operation)
  /\ c.operation \in ReadOperations

\* the where handed to the client carries the filter of the config's mode
ModeFilterApplied(c) ==
  LET config == ConfigOf(c.model)
      field == config.field
  IN /\ (ExceptMode(config) /\ field \notin DOMAIN WhereOf(c.args))
          => /\ field \in DOMAIN WhereOf(c.exec.args)
             /\ WhereOf(c.exec.args)[field] = NotDeleted(config)
     /\ config.queryOption = "only"
          => /\ field \in DOMAIN WhereOf(c.exec.args)
             /\ WhereOf(c.exec.args)[field] = NotValue(NotDeleted(config))

\* C6 as claimed: every read kind, findUnique and findUniqueOrThrow
\* included, is filtered in modes except and only.
C6_EveryReadFiltered ==
  \A s \in Slots : RunningRead(call[s]) => ModeFilterApplied(call[s])

\* C6 as amended: every read is filtered in modes except and only, but a
\* findUnique / findUniqueOrThrow that is handed on as it is.
C6_RewrittenReadsFiltered ==
  \A s \in Slots :
    (RunningRead(call[s]) /\ ~UniqueLookupHandedOn(call[s])) => ModeFilterApplied(call[s])

\* a findUnique rewritten to findFirst is at the client in mode only
C6_Witness ==
  \E s \in Slots :
    /\ RunningRead(call[s]) /\ call[s].operation = "findUnique"
    /\ call[s].exec.operation = "findFirst"
    /\ ConfigOf(call[s].model).queryOption = "only"

\* a findUnique / findUniqueOrThrow of an opted-in model whose where is
\* keyed on a compound-unique-index field
IndexLookup(c) ==
  /\ c.model \in Models /\ OptedIn(c.model) /\ c.st # "idle"
  /\ c.operation \in {"findUnique", "findUniqueOrThrow"}
  /\ DOMAIN WhereOf(c.args) \cap uniqueIndexFieldsByModel(c.model) # {}

FindFirstOf(operation) == IF operation = "findUnique" THEN "findFirst" ELSE "findFirstOrThrow"

\* with allowCompoundUniqueIndexWhere unset the lookup fails in the guard
\* and nothing is executed
GuardRejects(c) ==
  (IndexLookup(c) /\ ~Truthy(ConfigOf(c.model).allowCompoundUniqueIndexWhere) /\ c.st # "issued")
    => /\ c.st = "failed" /\ c.err = "UniqueIndexGuardError"
       /\ c.exec = NoExec

\* C7 as claimed: rejected when allowCompoundUniqueIndexWhere is false,
\* rewritten to findFirst / findFirstOrThrow with the visibility where when
\* it is true.
C7_IndexLookupRewrittenWhenAllowed ==
  \A s \in Slots :
    LET c == call[s]
    IN /\ GuardRejects(c)
       /\ (IndexLookup(c) /\ Truthy(ConfigOf(c.model).allowCompoundUniqueIndexWhere) /\ Running(c))
            => /\ c.exec.operation = FindFirstOf(c.operation)
               /\ ModeFilterApplied(c)

\* C7 as amended: rejected when allowCompoundUniqueIndexWhere is false,
\* handed to the client as it is (same operation, same args, no visibility
\* where) when it is true.
C7_IndexLookupHandedOnWhenAllowed ==
  \A s \in Slots :
    LET c == call[s]
    IN /\ GuardRejects(c)
       /\ (IndexLookup(c) /\ Truthy(ConfigOf(c.model).allowCompoundUniqueIndexWhere)
           /\ c.st # "issued")
            => /\ Executed(c)
               /\ c.exec = [operation |-> c.operation, args |-> c.args]

\* an allowed lookup by compound unique index is at the client, unfiltered
C7_Witness ==
  \E s \in Slots :
    /\ IndexLookup(call[s]) /\ Running(call[s])
    /\ ConfigOf(call[s].model).allowCompoundUniqueIndexWhere = "true"
    /\ ExceptMode(ConfigOf(call[s].model))
    /\ call[s].exec.operation = "findUnique"
    /\ ConfigOf(call[s].model).field \notin DOMAIN WhereOf(call[s].exec.args)

\* a nested update of an opted-in model that the delete rule did not make
PlainNestedUpdate(n) ==
  /\ n.active /\ n.operation = "update" /\ OptedIn(n.model)
  /\ ~Has(n.args, "__passUpdateThrough")

\* C8: a nested update through a to-one relation is rejected with the
\* relation-safety error, nothing being executed, when allowToOneUpdates is
\* unset, and handed on with its args unchanged when it is set; a nested
\* update through a to-many relation and a root update are never rejected.
C8_ToOneUpdateGuard ==
  /\ PlainNestedUpdate(nested) =>
       IF ~nested.scope.isList /\ ~Truthy(ConfigOf(nested.model).allowToOneUpdates)
       THEN /\ nested.err = "RelationSafetyError" /\ nested.out = NoExec
            /\ \A s \in Slots : call[s].st # "idle" =>
                 call[s].st = "failed" /\ call[s].err = "RelationSafetyError" /\ call[s].exec = NoExec
       ELSE /\ nested.err = "none"
            /\ nested.out = [operation |-> "update", args |-> nested.args]
  /\ \A s \in Slots :
       (call[s].operation = "update" /\ call[s].st = "failed" /\ call[s].err # "ClientError")
         => nested.active /\ nested.err = call[s].err

\* a nested update through a to-one relation has been rejected
C8_Witness ==
  /\ PlainNestedUpdate(nested) /\ ~nested.scope.isList
  /\ nested.err = "RelationSafetyError"
  /\ call["a"].st = "failed"

\* the update / updateMany a soft delete is executed as
SoftDelete(operation, config, filter) ==
  [operation |-> operation,
   args |-> Obj(("where" :> [k \in DOMAIN filter \cup {config.field} |->
                               IF k = config.field THEN NotDeleted(config) ELSE filter[k]])
                @@ ("data" :> MarkDeleted(config)))]

\* a root delete with a where or a deleteMany is at the client, forceDelete
\* unset and the mode except as its rule found them
RootFilterDelete(c) ==
  /\ Running(c) /\ DirectDelete(c)
  /\ ~Truthy(ResolvedConfig(c.model).forceDelete) /\ ExceptMode(ResolvedConfig(c.model))

\* the node the caller wrote as a nested delete / deleteMany with a filter
\* on an opted-in model, forceDelete unset and the mode except
FilterDeleteNode(n) ==
  /\ n.active /\ OptedIn(n.model)
  /\ n.from.operation \in {"delete", "deleteMany"} /\ n.from.args.kind = "object"
  /\ ~Truthy(ConfigOf(n.model).forceDelete) /\ ExceptMode(ConfigOf(n.model))

\* the update / updateMany the node of the caller's delete is to become
SoftDeleteOf(n) ==
  SoftDelete(IF n.from.operation = "delete" THEN "update" ELSE "updateMany",
             ResolvedConfig(n.model), CallerFilter(n.from.args))

\* the handler has finished with the node: it threw, or what it gave
\* params.query is what is executed
Settled(n) == n.err # "none" \/ n.out.operation = n.operation

\* the node is an update the delete rule made through a to-one relation of
\* a model that does not allow updates through to-one relations
ToOneUpdateRefused(n) ==
  /\ n.from.operation = "delete" /\ ~n.scope.isList
  /\ ~Truthy(ConfigOf(n.model).allowToOneUpdates)

\* C9 as claimed: with forceDelete unset and in mode except, a deleteMany, a
\* root delete with a where and a nested delete given a filter are executed
\* as updateMany / update with data {field: createValue(true)} and the
\* caller's filter with field set to createValue(false), field and
\* createValue being those of the model's resolved config.
C9_EveryFilterDeleteExecuted ==
  /\ \A s \in Slots :
       RootFilterDelete(call[s])
         => call[s].exec = SoftDelete(IF call[s].operation = "delete" THEN "update" ELSE "updateMany",
                                      ResolvedConfig(call[s].model), CallerFilter(call[s].args))
  /\ (FilterDeleteNode(nested) /\ Settled(nested))
       => /\ nested.err = "none"
          /\ nested.out = SoftDeleteOf(nested)

\* C9 as amended: the root deletes as claimed; for a nested delete given a
\* filter the delete rule returns that update / updateMany, which the node
\* is executed as, unless it is a delete through a to-one relation and
\* allowToOneUpdates is unset: the update is then rejected with the
\* relation-safety error and nothing is executed.
C9_SoftDeleteRewrite ==
  /\ \A s \in Slots :
       RootFilterDelete(call[s])
         => call[s].exec = SoftDelete(IF call[s].operation = "delete" THEN "update" ELSE "updateMany",
                                      ResolvedConfig(call[s].model), CallerFilter(call[s].args))
  /\ FilterDeleteNode(nested) =>
       IF ~Settled(nested)
       THEN nested.operation = nested.from.operation /\ nested.out = SoftDeleteOf(nested)
       ELSE IF ToOneUpdateRefused(nested)
       THEN /\ nested.err = "RelationSafetyError" /\ nested.out = NoExec
            /\ \A s \in Slots : call[s].st # "idle" =>
                 call[s].st = "failed" /\ call[s].err = "RelationSafetyError" /\ call[s].exec = NoExec
       ELSE /\ nested.err = "none"
            /\ nested.out = SoftDeleteOf(nested)

\* a nested delete through a to-many relation, whose caller named the
\* deletion field, is executed as update, on a model with an object of its
\* own
C9_Witness ==
  /\ FilterDeleteNode(nested) /\ Settled(nested) /\ nested.err = "none"
  /\ nested.from.operation = "delete" /\ nested.scope.isList
  /\ ModelSettings[nested.model] = "object"
  /\ configs["own"].field \in DOMAIN CallerFilter(nested.from.args)
  /\ nested.operation = "update" /\ nested.out.operation = "update"

\* a deleteMany whose caller named the deletion field is at the client as
\* updateMany, on a model with an object of its own
C9_WitnessRoot ==
  \E s \in Slots :
    /\ Running(call[s]) /\ DirectDelete(call[s]) /\ call[s].operation = "deleteMany"
    /\ ModelSettings[call[s].model] = "object"
    /\ configs["own"].field \in DOMAIN CallerFilter(call[s].args)
    /\ call[s].exec.operation = "updateMany"

\* a nested delete given a filter, through a to-one relation, has been
\* rejected
C9_WitnessRefused ==
  /\ FilterDeleteNode(nested) /\ Settled(nested) /\ ToOneUpdateRefused(nested)
  /\ nested.err = "RelationSafetyError"

\* C10: in mode except a where that names field keeps the caller's value,
\* falsy values included, for the read rules and for updateMany.
C10_CallerValueKept ==
  \A s \in Slots :
    LET c == call[s]
        config == ConfigOf(c.model)
    IN (Running(c) /\ c.model \in Models /\ HasRule(c.model, c.operation)
        /\ c.operation \in ReadOperations \cup {"updateMany"}
        /\ ExceptMode(config) /\ config.field \in DOMAIN WhereOf(c.args))
         => /\ config.field \in DOMAIN WhereOf(c.exec.args)
            /\ WhereOf(c.exec.args)[config.field] = WhereOf(c.args)[config.field]

\* the model is configured as false or is absent from the models map
Excluded(m) == m \notin DOMAIN ModelSettings \/ ModelSettings[m] = "false"

\* C11: an operation, root or nested, whose model is configured as false or
\* is absent from the models map is never rejected by a rule of its own and
\* is executed with its operation kind and args unchanged; the root call
\* returns the client's answer unchanged.
C11_ExcludedModelUntouched ==
  /\ \A s \in Slots :
       LET c == call[s]
       IN (c.model \in Models /\ Excluded(c.model)) =>
            /\ (c.st = "failed" /\ c.err # "ClientError")
                 => nested.active /\ ~Excluded(nested.model) /\ nested.err = c.err
            /\ c.st \in {"running", "done"} =>
                 c.exec = [operation |-> c.operation, args |-> c.args]
            /\ c.st = "done" => c.result = c.answer /\ c.answer \in ClientResults
  /\ (nested.active /\ Excluded(nested.model)) =>
       /\ nested.err = "none"
       /\ nested.out = [operation |-> nested.operation, args |-> nested.args]

\* a nested delete: true on a model configured as false has been handed on
\* as delete: true
C11_Witness ==
  /\ nested.active /\ nested.model = "Profile" /\ nested.operation = "delete"
  /\ nested.args = BoolArg(TRUE) /\ nested.out = [operation |-> "delete", args |-> BoolArg(TRUE)]

\* a nested updateMany on a model absent from the models map has been handed
\* on, and a root call on such a model has returned
C11_WitnessAbsent ==
  \/ /\ nested.active /\ nested.model = "Tag" /\ nested.operation = "updateMany"
     /\ nested.out.args = nested.args
  \/ /\ call["a"].model = "Tag" /\ call["a"].st = "done" /\ call["a"].operation = "deleteMany"

\* the node the caller wrote as delete: true on an opted-in model
DeleteTrueNode(n) ==
  /\ n.active /\ OptedIn(n.model)
  /\ n.from = [operation |-> "delete", args |-> BoolArg(TRUE)]

\* what the handler gave params.query is what is executed: it threw
\* nothing and left the operation kind as the walker had it
HandedToExecution(n) == n.err = "none" /\ n.out.operation = n.operation

\* C12: for a nested delete: true on an opted-in model, whatever the model's
\* forceDelete and queryOption, the args handed to execution do not hold the
\* __passUpdateThrough key.
C12_SentinelNeverExecuted ==
  (DeleteTrueNode(nested) /\ HandedToExecution(nested))
    => ~Has(nested.out.args, "__passUpdateThrough")

\* C12 with forceDelete unset: the node comes back as an update, the update
\* rule strips the key, and the args executed are the delete-marking data.
C12_StrippedWhenNotForced ==
  (DeleteTrueNode(nested) /\ HandedToExecution(nested)
   /\ ~Truthy(ConfigOf(nested.model).forceDelete))
    => nested.out = [operation |-> "update", args |-> Obj(MarkDeleted(ConfigOf(nested.model)))]

\* a delete: true node has gone through the update rule and is executed
C12_WitnessStripped ==
  /\ DeleteTrueNode(nested) /\ HandedToExecution(nested)
  /\ nested.operation = "update" /\ ~nested.scope.isList
  /\ ~Has(nested.out.args, "__passUpdateThrough")

\* the step writes the config of model a by a mutator called on a, or by
\* the reset after a root call on a
MutatorOrResetOn(a) ==
  \/ withTrashed(a)
  \/ onlyTrashed(a)
  \/ \E nm \in NestedModelsArgs : withTrashedRelated(a, nm)
  \/ \E args \in ForceDeleteArgs(a) : forceDelete("a", a, args)
  \/ call["a"].model = a /\ \E answer \in ClientResults : ClientReturn("a", answer)

\* queryOption, nestModels and forceDelete of every other opted-in model are
\* as they were
OthersUnchanged(a) ==
  \A b \in Models \ {a} :
    OptedIn(b) =>
      /\ ConfigOf(b)'.queryOption = ConfigOf(b).queryOption
      /\ ConfigOf(b)'.nestModels = ConfigOf(b).nestModels
      /\ ConfigOf(b)'.forceDelete = ConfigOf(b).forceDelete

\* C13: a visibility mutator called on model A, and the reset after a root
\* call on A, leave queryOption, nestModels and forceDelete of every other
\* opted-in model unchanged, also when both models are configured as true.
C13_MutatorsModelScoped ==
  [][\A a \in Models : (OptedIn(a) /\ MutatorOrResetOn(a)) => OthersUnchanged(a)]_vars

\* C13 between models that do not hold the same config object: the writes
\* on A leave B untouched.
C13_ScopedBetweenConfigObjects ==
  [][\A a \in Models : (OptedIn(a) /\ MutatorOrResetOn(a)) =>
       \A b \in Models \ {a} :
         (OptedIn(b) /\ modelConfig[b] # modelConfig[a]) => ConfigOf(b)' = ConfigOf(b)]_vars

\* a root findFirst, findMany or findUnique of an opted-in model, rewritten
\* while the model's nestModels holds entries, is at the client
ReadUnderNestModels(c) ==
  /\ RunningRead(c) /\ c.operation \in {"findFirst", "findMany", "findUnique"}
  /\ ~UniqueLookupHandedOn(c)
  /\ ConfigOf(c.model).nestModels.def
  /\ DOMAIN ConfigOf(c.model).nestModels.map # {}

\* relation r of the include matches a nestModels key
Matches(config, r) == \E k \in DOMAIN config.nestModels.map : IncludesLower(r, k)

\* the where getInclude gives a matching relation: the caller's, with the
\* filter added when the value of the key is not true
MatchedWhere(config, r, entry) ==
  IF \E k \in DOMAIN config.nestModels.map : IncludesLower(r, k) /\ config.nestModels.map[k]
  THEN IncludeWhere(entry)
  ELSE Spread(IncludeWhere(entry), config.field :> NotDeleted(config))

\* C14: with nestModels non-empty, every relation of the caller's include is
\* in the executed include, as the caller wrote it but for
\* field = createValue(false) added to the where of a relation that matches
\* a nestModels key whose value is not true.
C14_IncludeOnlyAddsFilter ==
  \A s \in Slots :
    LET c == call[s]
        config == ConfigOf(c.model)
        inc == IncludeOf(c.args)
        out == IncludeOf(c.exec.args)
    IN ReadUnderNestModels(c) =>
         /\ DOMAIN out = DOMAIN inc
         /\ \A r \in DOMAIN inc :
              out[r] = IF Matches(config, r)
                          /\ MatchedWhere(config, r, inc[r]) # IncludeWhere(inc[r])
                       THEN Obj(Spread(ObjOf(inc[r]), "where" :> MatchedWhere(config, r, inc[r])))
                       ELSE inc[r]

\* C14, what the rule does: when some relation of the include matches a
\* nestModels key, the executed include holds the matching relations only,
\* each with nothing but its where; when none matches, the include is the
\* caller's.
C14_IncludeRebuiltFromMatches ==
  \A s \in Slots :
    LET c == call[s]
        config == ConfigOf(c.model)
        inc == IncludeOf(c.args)
        out == IncludeOf(c.exec.args)
        matched == {r \in DOMAIN inc : Matches(config, r)}
    IN ReadUnderNestModels(c) =>
         IF matched = {} THEN out = inc
         ELSE /\ DOMAIN out = matched
              /\ \A r \in matched :
                   /\ DOMAIN out[r].obj = {"where"}
                   /\ out[r].obj.where = MatchedWhere(config, r, inc[r])

\* a findMany whose include names a matching and a non-matching relation is
\* at the client while nestModels holds an entry
C14_WitnessInclude ==
  \E s \in Slots :
    /\ ReadUnderNestModels(call[s]) /\ call[s].operation = "findMany"
    /\ DOMAIN IncludeOf(call[s].args) = {"post", "author"}

\* the config object was given with field and createValue only: the two
\* allow flags, which the extension never writes, are still undefined
GivenMinimal(config) ==
  config.allowToOneUpdates = "undefined" /\ config.allowCompoundUniqueIndexWhere = "undefined"

\* a root findFirst, findMany or findUnique by a unique field, issued in the
\* default mode on a model whose config was given minimal, whose rule has run
MinimalConfigRead(c) ==
  /\ c.model \in Models /\ OptedIn(c.model) /\ GivenMinimal(ConfigOf(c.model))
  /\ c.operation \in {"findFirst", "findMany", "findUnique"}
  /\ c.operation = "findUnique" => ~UniqueLookupHandedOn(c) /\ ~IndexLookup(c)
  /\ c.mode = "except" /\ ConfigOf(c.model).field \notin DOMAIN WhereOf(c.args)
  /\ c.st # "issued"

\* C15: on a model whose config gives only field and createValue, a root
\* findFirst, findMany or findUnique raises no error of the extension and is
\* executed with field = createValue(false), as the first operation on the
\* model and after any earlier root operations.
C15_MinimalConfigReadsFiltered ==
  \A s \in Slots :
    MinimalConfigRead(call[s]) =>
      /\ call[s].st = "failed" => call[s].err = "ClientError"
      /\ Executed(call[s]) => Filtered(call[s])

\* C15 once nestModels is defined, that is after the reset of an earlier
\* root call on the model: the reads are executed, filtered.
C15_FilteredOnceReset ==
  \A s \in Slots :
    (MinimalConfigRead(call[s]) /\ ConfigOf(call[s].model).nestModels.def
     /\ call[s].st \in {"running", "failed"}) =>
      /\ call[s].st = "failed" => call[s].err = "ClientError"
      /\ Executed(call[s]) => Filtered(call[s])

\* a findMany on a model given a minimal config is at the client
C15_WitnessOnceReset ==
  \E s \in Slots :
    /\ MinimalConfigRead(call[s]) /\ Running(call[s]) /\ call[s].operation = "findMany"
    /\ Filtered(call[s])

====
